---- MODULE Spec2Model ----
(***************************************************************************)
(* Route / waypoint reconciliation of the gcom web frontend.               *)
(*                                                                         *)
(* The repository holds two revisions of the working-set store:            *)
(*   - the revision whose state is {availableRoutes, currentRoute}, saved  *)
(*     by the call-by-call thunk saveCurrentRouteToBackend (rename,        *)
(*     create/update per waypoint, delete, reorder, re-fetch).  It is the  *)
(*     specification Spec.                                                 *)
(*   - the revision whose state is {availableRoutes, currentRouteId},      *)
(*     saved by one syncRouteWaypoints call.  It is the specification      *)
(*     SpecId.                                                             *)
(* Definitions of the first revision end in _r2, of the second in _r3.     *)
(***************************************************************************)
EXTENDS Integers, Sequences, FiniteSets, TLC

VARIABLES
    data,        \* state.data of the currentRoute revision
    dataId,      \* state.data of the currentRouteId revision
    remote,      \* remote route / waypoint storage
    pending,     \* responses of fetchAllRoutes / switchToRoute / createNewRoute / deleteRouteById in flight
    save,        \* the saveCurrentRouteToBackend thunk in flight (or settled)
    lastLoaded,  \* history: the route most recently handed to setCurrentRoute
    nSaves,      \* history: number of saves started
    nOps,        \* number of operations the user has started (edits, saves, posts, route thunks)
    drone,       \* the drone-post operation: its invocations and its calls to the flight-control gateway
    lastSelected, \* history: the route id of the most recent switchToRoute call (0: none)
    save2        \* a saveCurrentRouteToBackend thunk dispatched while the first is in flight

vars == <<data, dataId, remote, pending, save, lastLoaded, nSaves, nOps, drone, lastSelected, save2>>

(***************************************************************************)
(* Bounds                                                                  *)
(***************************************************************************)
\* the longest local waypoint list
MaxWps == 3
\* the number of operations the user starts: local edits, saves and route thunks
MaxOps == 4

Vals == {1, 2}
\* parseFloat of a field that holds no number ("", "-", ".")
NaN == 0
\* what the form's numeric fields parse to
FormVals == Vals \cup {NaN}
Names == {"a", "b"}

(***************************************************************************)
(* Waypoint identities are strings; a string is a sequence of characters.  *)
(***************************************************************************)
NewId == <<"-", "1">>
NegId == <<"-", "2">>
Id7 == <<"7">>
Id8 == <<"8">>
IdA1 == <<"a", "1">>
IdB2 == <<"b", "2">>

\* the identities remote storage hands out (UUIDs: some start with a digit, some with a letter)
InitialIds == {Id7, IdA1}
FreshIds == {Id8, IdB2}
AllIds == <<NewId, NegId, Id7, Id8, IdA1, IdB2>>

undefined == -1

IdRank(id) == CHOOSE k \in 1..Len(AllIds) : AllIds[k] = id

DigitVal(c) ==
    CASE c = "0" -> 0 [] c = "1" -> 1 [] c = "2" -> 2 [] c = "3" -> 3 [] c = "4" -> 4
      [] c = "5" -> 5 [] c = "6" -> 6 [] c = "7" -> 7 [] c = "8" -> 8 [] c = "9" -> 9
      [] OTHER -> -1

RECURSIVE DigitsValue(_, _, _)
DigitsValue(s, k, acc) ==
    IF k > Len(s) \/ DigitVal(s[k]) < 0 THEN acc
    ELSE DigitsValue(s, k + 1, acc * 10 + DigitVal(s[k]))

\* JavaScript parseInt: optional sign, then the longest prefix of digits; NaN when there is none
parseInt(s) ==
    LET signed == Len(s) > 0 /\ (s[1] = "-" \/ s[1] = "+")
        start == IF signed THEN 2 ELSE 1
        hasDigit == start <= Len(s) /\ DigitVal(s[start]) >= 0
        mag == DigitsValue(s, start, 0)
    IN  IF ~hasDigit THEN [nan |-> TRUE, n |-> 0]
        ELSE [nan |-> FALSE, n |-> IF s[1] = "-" THEN 0 - mag ELSE mag]

\* comparisons with NaN are false
isNewWaypoint(id) == id = NewId \/ (~parseInt(id).nan /\ parseInt(id).n < 0)

isPersistedId(id) == id # NewId /\ ~parseInt(id).nan /\ parseInt(id).n >= 0

(***************************************************************************)
(* Values                                                                  *)
(***************************************************************************)
Wp(id, val, order, route) == [id |-> id, val |-> val, order |-> order, route |-> route]

Route(id, name, waypoints) == [id |-> id, name |-> name, waypoints |-> waypoints]

\* what the waypoint form yields for a new waypoint
parseWaypointForm(val) == Wp(NewId, val, undefined, undefined)

Ids(wps) == {wps[k].id : k \in 1..Len(wps)}

IdSeq(wps) == [k \in 1..Len(wps) |-> wps[k].id]

\* Array.prototype.findIndex on routes by id, 1-based; 0 stands for -1
findIndex(routes, id) ==
    IF \E k \in 1..Len(routes) : routes[k].id = id
    THEN CHOOSE k \in 1..Len(routes) :
            /\ routes[k].id = id
            /\ \A j \in 1..(k - 1) : routes[j].id # id
    ELSE 0

\* Array.prototype.splice(start, 1) with a 0-based start
splice(list, start) ==
    LET len == Len(list)
        from == IF start < 0 THEN (IF len + start < 0 THEN 0 ELSE len + start) ELSE start
    IN  IF from >= len THEN list
        ELSE [k \in 1..(len - 1) |-> IF k <= from THEN list[k] ELSE list[k + 1]]

\* list[index] = wp with a 0-based index in -1..Len(list)
assignIndex(list, index, wp) ==
    IF index < 0 THEN list
    ELSE IF index < Len(list) THEN [list EXCEPT ![index + 1] = wp]
    ELSE Append(list, wp)

(***************************************************************************)
(* Remote storage (the web backend): routes and their ordered waypoints.   *)
(***************************************************************************)
RemoteInit ==
    [routes |-> {[id |-> 1, name |-> "a"]},
     waypoints |-> {Wp(Id7, 1, 0, 1), Wp(IdA1, 2, 1, 1)},
     nextRouteId |-> 2,
     usedIds |-> InitialIds]

hasRoute(rem, id) == \E r \in rem.routes : r.id = id

hasWaypoint(rem, id) == \E w \in rem.waypoints : w.id = id

orderedBefore(w, v) ==
    w.order < v.order \/ (w.order = v.order /\ IdRank(w.id) <= IdRank(v.id))

RECURSIVE sortByOrder(_)
sortByOrder(S) ==
    IF S = {} THEN <<>>
    ELSE LET m == CHOOSE w \in S : \A v \in S : orderedBefore(w, v)
         IN  <<m>> \o sortByOrder(S \ {m})

remoteRoute(rem, id) ==
    LET r == CHOOSE x \in rem.routes : x.id = id
    IN  Route(id, r.name, sortByOrder({w \in rem.waypoints : w.route = id}))

RECURSIVE routesFrom(_, _)
routesFrom(rem, id) ==
    IF id >= rem.nextRouteId THEN <<>>
    ELSE (IF hasRoute(rem, id) THEN <<remoteRoute(rem, id)>> ELSE <<>>) \o routesFrom(rem, id + 1)

remoteListRoutes(rem) == routesFrom(rem, 1)

remoteCreateRoute(rem, name) ==
    [rem EXCEPT !.routes = @ \cup {[id |-> rem.nextRouteId, name |-> name]},
                !.nextRouteId = @ + 1]

remoteDeleteRoute(rem, id) ==
    [rem EXCEPT !.routes = {r \in @ : r.id # id},
                !.waypoints = {w \in @ : w.route # id}]

remoteUpdateRouteName(rem, id, name) ==
    [rem EXCEPT !.routes = {IF r.id = id THEN [r EXCEPT !.name = name] ELSE r : r \in @}]

remoteCreateWaypoint(rem, fresh, val, order, route) ==
    [rem EXCEPT !.waypoints = @ \cup {Wp(fresh, val, order, route)},
                !.usedIds = @ \cup {fresh}]

remoteUpdateWaypoint(rem, id, val, order, route) ==
    [rem EXCEPT !.waypoints = {IF w.id = id THEN Wp(id, val, order, route) ELSE w : w \in @}]

remoteDeleteWaypoint(rem, id) ==
    [rem EXCEPT !.waypoints = {w \in @ : w.id # id}]

\* the waypoint of the route named at 0-based position p of ids gets order p
remoteReorder(rem, route, ids) ==
    [rem EXCEPT !.waypoints =
        {IF w.route = route /\ \E p \in 1..Len(ids) : ids[p] = w.id
         THEN [w EXCEPT !.order = (CHOOSE p \in 1..Len(ids) : ids[p] = w.id) - 1]
         ELSE w : w \in @}]

(***************************************************************************)
(* Remote calls of a save, the errors they raise, and what the thunk       *)
(* rejects with.                                                           *)
(***************************************************************************)
Call(op, route, id, val, order, name, ids) ==
    [op |-> op, route |-> route, id |-> id, val |-> val, order |-> order,
     name |-> name, ids |-> ids]

NoError == [message |-> "", status |-> 0, detail |-> ""]
NetworkError == [message |-> "Network Error", status |-> 0, detail |-> ""]
\* z.number() rejects NaN: the error serializeWaypoint / serializePartialWaypoint throw
ZodError == [message |-> "Expected number, received nan", status |-> 0, detail |-> ""]
NotFoundError == [message |-> "Request failed with status code 404", status |-> 404, detail |-> "Not found."]

extractAxiosError_mut(error) == [message |-> "An unknown error occurred", status |-> 0]
extractAxiosError(error) ==
    [message |-> IF error.detail # "" THEN error.detail
                 ELSE IF error.message # "" THEN error.message
                 ELSE "An unknown error occurred",
     status |-> error.status]

\* FrontendWaypointSchema: whether the waypoint's fields parse
schemaAccepts(val) == val # NaN

\* whether remote storage accepts the call
remoteAccepts(rem, c) ==
    CASE c.op = "updateRouteName" -> hasRoute(rem, c.route)
      [] c.op = "addWaypointToRoute" -> hasRoute(rem, c.route)
      [] c.op = "updateWaypoint" -> hasWaypoint(rem, c.id) /\ hasRoute(rem, c.route)
      [] c.op = "deleteWaypoint" -> hasWaypoint(rem, c.id)
      [] c.op = "reorderWaypoints" -> hasRoute(rem, c.route)
      [] c.op = "getRouteById" -> hasRoute(rem, c.route)

\* remote storage after the accepted call; fresh is the identity it assigns on a create
remoteApply(rem, c, fresh) ==
    CASE c.op = "updateRouteName" -> remoteUpdateRouteName(rem, c.route, c.name)
      [] c.op = "addWaypointToRoute" -> remoteCreateWaypoint(rem, fresh, c.val, c.order, c.route)
      [] c.op = "updateWaypoint" -> remoteUpdateWaypoint(rem, c.id, c.val, c.order, c.route)
      [] c.op = "deleteWaypoint" -> remoteDeleteWaypoint(rem, c.id)
      [] c.op = "reorderWaypoints" -> remoteReorder(rem, c.route, c.ids)
      [] c.op = "getRouteById" -> rem

\* the waypoint a create or update call answers with
remoteSaved(c, fresh) ==
    IF c.op = "addWaypointToRoute" THEN Wp(fresh, c.val, c.order, c.route)
    ELSE Wp(c.id, c.val, c.order, c.route)

(***************************************************************************)
(* The data slice, revision {availableRoutes, currentRoute}.               *)
(* currentRoute is <<>> for null and <<route>> otherwise.                  *)
(***************************************************************************)
DataInit_r2 == [availableRoutes |-> <<>>, currentRoute |-> <<>>]

loadAvailableRoutes_r2(st, routes) == [st EXCEPT !.availableRoutes = routes]

setCurrentRoute_r2(st, route) == [st EXCEPT !.currentRoute = <<route>>]

addRoute_r2(st, route) == [st EXCEPT !.availableRoutes = Append(@, route)]

removeRoute_r2(st, id) ==
    [availableRoutes |-> SelectSeq(st.availableRoutes, LAMBDA r : r.id # id),
     currentRoute |-> IF st.currentRoute # <<>> /\ st.currentRoute[1].id = id
                      THEN <<>> ELSE st.currentRoute]

updateCurrentRouteName_r2(st, name) ==
    IF st.currentRoute = <<>> THEN st
    ELSE LET routeIndex == findIndex(st.availableRoutes, st.currentRoute[1].id)
         IN  [availableRoutes |->
                 IF routeIndex # 0
                 THEN [st.availableRoutes EXCEPT ![routeIndex].name = name]
                 ELSE st.availableRoutes,
              currentRoute |-> <<[st.currentRoute[1] EXCEPT !.name = name]>>]

updateCurrentRouteWaypoints_r2(st, list) ==
    IF st.currentRoute = <<>> THEN st
    ELSE LET routeIndex == findIndex(st.availableRoutes, st.currentRoute[1].id)
         IN  [availableRoutes |->
                 IF routeIndex # 0
                 THEN [st.availableRoutes EXCEPT ![routeIndex].waypoints = list]
                 ELSE st.availableRoutes,
              currentRoute |-> <<[st.currentRoute[1] EXCEPT !.waypoints = list]>>]

addWaypointToCurrentRoute_r2(st, wp) ==
    IF st.currentRoute = <<>> THEN st
    ELSE LET routeIndex == findIndex(st.availableRoutes, st.currentRoute[1].id)
         IN  [availableRoutes |->
                 IF routeIndex # 0
                 THEN [st.availableRoutes EXCEPT ![routeIndex].waypoints = Append(@, wp)]
                 ELSE st.availableRoutes,
              currentRoute |-> <<[st.currentRoute[1] EXCEPT !.waypoints = Append(@, wp)]>>]

editWaypointInCurrentRoute_r2(st, index, wp) ==
    IF st.currentRoute = <<>> THEN st
    ELSE LET routeIndex == findIndex(st.availableRoutes, st.currentRoute[1].id)
         IN  [availableRoutes |->
                 IF routeIndex # 0
                 THEN [st.availableRoutes EXCEPT ![routeIndex].waypoints = assignIndex(@, index, wp)]
                 ELSE st.availableRoutes,
              currentRoute |-> <<[st.currentRoute[1] EXCEPT !.waypoints = assignIndex(@, index, wp)]>>]

deleteWaypointFromCurrentRoute_r2(st, index) ==
    IF st.currentRoute = <<>> THEN st
    ELSE LET routeIndex == findIndex(st.availableRoutes, st.currentRoute[1].id)
         IN  [availableRoutes |->
                 IF routeIndex # 0
                 THEN [st.availableRoutes EXCEPT ![routeIndex].waypoints = splice(@, index)]
                 ELSE st.availableRoutes,
              currentRoute |-> <<[st.currentRoute[1] EXCEPT !.waypoints = splice(@, index)]>>]

selectCurrentRouteWaypoints_r2(st) ==
    IF st.currentRoute = <<>> THEN <<>> ELSE st.currentRoute[1].waypoints

(***************************************************************************)
(* Route thunks: the remote call is served when it is issued, its response *)
(* is dispatched to the store when it arrives.                             *)
(***************************************************************************)
Response(kind, routes, id) == [kind |-> kind, routes |-> routes, id |-> id]

CanStart == nOps < MaxOps

fetchAllRoutesCall ==
    /\ CanStart
    /\ pending' = pending \cup {Response("listRoutes", remoteListRoutes(remote), 0)}
    /\ nOps' = nOps + 1
    /\ UNCHANGED <<data, dataId, remote, save, lastLoaded, nSaves, drone, lastSelected, save2>>

switchToRouteCall(id) ==
    /\ CanStart
    /\ hasRoute(remote, id)
    /\ pending' = pending \cup {Response("getRouteById", <<remoteRoute(remote, id)>>, id)}
    /\ nOps' = nOps + 1
    /\ lastSelected' = id
    /\ UNCHANGED <<data, dataId, remote, save, lastLoaded, nSaves, drone, save2>>

createNewRouteCall(name) ==
    /\ CanStart
    /\ remote' = remoteCreateRoute(remote, name)
    /\ pending' = pending \cup {Response("createRoute", <<Route(remote.nextRouteId, name, <<>>)>>, remote.nextRouteId)}
    /\ nOps' = nOps + 1
    /\ UNCHANGED <<data, dataId, save, lastLoaded, nSaves, drone, lastSelected, save2>>

\* the remote delete succeeds, or it fails (network error, or 404 for a route that is gone)
\* and the thunk is rejected without a dispatch
deleteRouteByIdCall(id) ==
    /\ CanStart
    /\ \/ /\ hasRoute(remote, id)
          /\ remote' = remoteDeleteRoute(remote, id)
          /\ pending' = pending \cup {Response("deleteRoute", <<>>, id)}
       \/ /\ remote' = remote
          /\ pending' = pending \cup {Response("deleteRouteRejected", <<>>, id)}
    /\ nOps' = nOps + 1
    /\ UNCHANGED <<data, dataId, save, lastLoaded, nSaves, drone, lastSelected, save2>>

\* the store after the response's dispatch
dispatchResponse_r2(st, p) ==
    CASE p.kind = "listRoutes" -> loadAvailableRoutes_r2(st, p.routes)
      [] p.kind = "getRouteById" -> setCurrentRoute_r2(st, p.routes[1])
      [] p.kind = "createRoute" -> addRoute_r2(st, p.routes[1])
      [] p.kind = "deleteRoute" -> removeRoute_r2(st, p.id)
      [] p.kind = "deleteRouteRejected" -> st

loadedAfter(p, loaded) ==
    CASE p.kind = "getRouteById" -> p.routes
      [] p.kind = "deleteRoute" -> IF loaded # <<>> /\ loaded[1].id = p.id THEN <<>> ELSE loaded
      [] OTHER -> loaded

thunkDone_r2 ==
    \E p \in pending :
        /\ data' = dispatchResponse_r2(data, p)
        /\ lastLoaded' = loadedAfter(p, lastLoaded)
        /\ pending' = pending \ {p}
        /\ UNCHANGED <<dataId, remote, save, nSaves, nOps, drone, lastSelected, save2>>

(***************************************************************************)
(* Local edits                                                             *)
(***************************************************************************)
\* the payloads the waypoint form produces for an edit at index: a new-identity
\* waypoint, or the edited waypoint keeping the identity, order and route it had
EditPayloads(list, index) ==
    {parseWaypointForm(v) : v \in Vals}
    \cup (IF index >= 0 /\ index < Len(list)
          THEN {[list[index + 1] EXCEPT !.val = v] : v \in Vals} ELSE {})

localEdit_r2 ==
    /\ CanStart
    /\ nOps' = nOps + 1
    /\ \/ \E name \in Names : data' = updateCurrentRouteName_r2(data, name)
       \/ data' = updateCurrentRouteWaypoints_r2(data, <<>>)
       \/ \E id \in {NewId, NegId}, v \in Vals :
            /\ Len(selectCurrentRouteWaypoints_r2(data)) < MaxWps
            /\ data' = addWaypointToCurrentRoute_r2(data, Wp(id, v, undefined, undefined))
       \/ \E index \in (-1)..(MaxWps - 1) :
            \E wp \in EditPayloads(selectCurrentRouteWaypoints_r2(data), index) :
                data' = editWaypointInCurrentRoute_r2(data, index, wp)
       \/ \E index \in (-1)..MaxWps : data' = deleteWaypointFromCurrentRoute_r2(data, index)
    /\ UNCHANGED <<dataId, remote, pending, save, lastLoaded, nSaves, drone, lastSelected, save2>>

(***************************************************************************)
(* saveCurrentRouteToBackend, call-by-call revision.                       *)
(*   pc: "idle", "run" (between remote calls), "dispatch" (re-fetched      *)
(*   route in hand), "fulfilled", "rejected".                              *)
(***************************************************************************)
NoRoute == Route(0, "", <<>>)

SaveIdle ==
    [pc |-> "idle", cur |-> NoRoute, ex |-> NoRoute, named |-> TRUE, i |-> 0,
     updated |-> <<>>, deleted |-> <<>>, d |-> 0, reordered |-> FALSE,
     fetched |-> <<>>, log |-> <<>>, error |-> [message |-> "", status |-> 0],
     base |-> <<>>, before |-> DataInit_r2, retry |-> FALSE]

\* existingRoute.waypoints.filter(persisted and not among the current identities)
deletedWaypoints_mut(currentRoute, existingRoute) ==
    SelectSeq(existingRoute.waypoints, LAMBDA w : isPersistedId(w.id))
deletedWaypoints(currentRoute, existingRoute) ==
    SelectSeq(existingRoute.waypoints,
              LAMBDA w : isPersistedId(w.id) /\ w.id \notin Ids(currentRoute.waypoints))

\* the create or update call for the waypoint at 0-based index i
syncCall_mut(routeId, waypoint, i) ==
    IF waypoint.id = NewId
    THEN Call("addWaypointToRoute", routeId, <<>>, waypoint.val, i, "", <<>>)
    ELSE Call("updateWaypoint", routeId, waypoint.id, waypoint.val, i, "", <<>>)
syncCall(routeId, waypoint, i) ==
    IF isNewWaypoint(waypoint.id)
    THEN Call("addWaypointToRoute", routeId, <<>>, waypoint.val, i, "", <<>>)
    ELSE Call("updateWaypoint", routeId, waypoint.id, waypoint.val, i, "", <<>>)

\* the remote call the thunk awaits next
nextCall_mut(s) ==
    IF ~s.named THEN Call("updateRouteName", s.cur.id, <<>>, 0, 0, s.cur.name, <<>>)
    ELSE IF s.i < Len(s.cur.waypoints) THEN syncCall(s.cur.id, s.cur.waypoints[s.i + 1], s.i)
    ELSE IF ~s.reordered THEN Call("reorderWaypoints", s.cur.id, <<>>, 0, 0, "", IdSeq(s.updated))
    ELSE IF s.d < Len(s.deleted) THEN Call("deleteWaypoint", s.cur.id, s.deleted[s.d + 1].id, 0, 0, "", <<>>)
    ELSE Call("getRouteById", s.cur.id, <<>>, 0, 0, "", <<>>)
nextCall(s) ==
    IF ~s.named THEN Call("updateRouteName", s.cur.id, <<>>, 0, 0, s.cur.name, <<>>)
    ELSE IF s.i < Len(s.cur.waypoints) THEN syncCall(s.cur.id, s.cur.waypoints[s.i + 1], s.i)
    ELSE IF s.d < Len(s.deleted) THEN Call("deleteWaypoint", s.cur.id, s.deleted[s.d + 1].id, 0, 0, "", <<>>)
    ELSE IF ~s.reordered THEN Call("reorderWaypoints", s.cur.id, <<>>, 0, 0, "", IdSeq(s.updated))
    ELSE Call("getRouteById", s.cur.id, <<>>, 0, 0, "", <<>>)

LogEntry(c, ok, err, res) ==
    [op |-> c.op, route |-> c.route, id |-> c.id, val |-> c.val, order |-> c.order,
     name |-> c.name, ids |-> c.ids, ok |-> ok, err |-> err, res |-> res]

\* the thunk after the call c succeeded, saved being the waypoint a create/update answered with
afterCall(s, c, saved, route) ==
    CASE c.op = "updateRouteName" -> [s EXCEPT !.named = TRUE]
      [] c.op \in {"addWaypointToRoute", "updateWaypoint"} ->
            [s EXCEPT !.i = @ + 1, !.updated = Append(@, saved)]
      [] c.op = "deleteWaypoint" -> [s EXCEPT !.d = @ + 1]
      [] c.op = "reorderWaypoints" -> [s EXCEPT !.reordered = TRUE]
      [] c.op = "getRouteById" -> [s EXCEPT !.pc = "dispatch", !.fetched = <<route>>]

\* the catch block: rejectWithValue(extractAxiosError(error))
rejected_mut(s, error) == afterCall(s, nextCall(s), Wp(NewId, 0, 0, 0), NoRoute)
rejected(s, error) == [s EXCEPT !.pc = "rejected", !.error = extractAxiosError(error)]

\* the precondition checks: "" when the save may proceed, else the message it rejects with
precheck_mut(st) ==
    IF st.currentRoute = <<>> THEN "No current route to save"
    ELSE IF findIndex(st.availableRoutes, st.currentRoute[1].id) = 0
    THEN "No current route to save"
    ELSE ""
precheck(st) ==
    IF st.currentRoute = <<>> THEN "No current route to save"
    ELSE IF findIndex(st.availableRoutes, st.currentRoute[1].id) = 0
    THEN "Current route not found in available routes"
    ELSE ""

\* the thunk up to its first await: getState, the precondition checks, the snapshot it works on
saveStarted(st, loaded) ==
    LET fresh == [SaveIdle EXCEPT !.base = loaded, !.before = st]
    IN  IF precheck(st) # ""
        THEN [fresh EXCEPT !.pc = "rejected",
                           !.error = [message |-> precheck(st), status |-> 0]]
        ELSE LET currentRoute == st.currentRoute[1]
                 existingRoute == st.availableRoutes[findIndex(st.availableRoutes, currentRoute.id)]
             IN  [fresh EXCEPT !.pc = "run", !.cur = currentRoute, !.ex = existingRoute,
                               !.named = (currentRoute.name = existingRoute.name),
                               !.deleted = deletedWaypoints(currentRoute, existingRoute)]

\* history: whether the save that starts on the store st retries prev, a save that was
\* rejected after one of its create calls had succeeded, with no edit in between
isRetry(prev, st) ==
    /\ prev.pc = "rejected"
    /\ \E k \in 1..Len(prev.log) : prev.log[k].op = "addWaypointToRoute" /\ prev.log[k].ok
    /\ st = prev.before

SaveInFlight == save.pc \in {"run", "dispatch"}

saveStart_r2 ==
    /\ ~SaveInFlight
    /\ CanStart
    /\ nOps' = nOps + 1
    /\ nSaves' = nSaves + 1
    /\ save' = [saveStarted(data, lastLoaded) EXCEPT !.retry = isRetry(save, data)]
    /\ UNCHANGED <<data, dataId, remote, pending, lastLoaded, drone, lastSelected, save2>>

\* the store after a remote call of the save failed: the catch block dispatches nothing
storeAfterFailure_mut(st, s) == setCurrentRoute_r2(st, s.ex)
storeAfterFailure(st, s) == st

\* one awaited remote call: it is served (or fails) and the thunk resumes
saveCall_r2 ==
    /\ save.pc = "run"
    /\ LET c == nextCall(save)
       IN  IF c.op \in {"addWaypointToRoute", "updateWaypoint"} /\ ~schemaAccepts(c.val)
           THEN \* serializePartialWaypoint.parse throws before the request is sent
                /\ save' = rejected(save, ZodError)
                /\ data' = storeAfterFailure(data, save)
                /\ UNCHANGED remote
           ELSE \/ /\ remoteAccepts(remote, c)
                   /\ \E fresh \in (IF c.op = "addWaypointToRoute" THEN FreshIds \ remote.usedIds ELSE {NewId}) :
                         /\ remote' = remoteApply(remote, c, fresh)
                         /\ UNCHANGED data
                         /\ save' = [afterCall(save, c, remoteSaved(c, fresh),
                                               IF c.op = "getRouteById" THEN remoteRoute(remote, c.route) ELSE NoRoute)
                                       EXCEPT !.log = Append(@, LogEntry(c, TRUE, NoError,
                                                        IF c.op = "addWaypointToRoute" THEN fresh ELSE c.id))]
                \/ /\ \E error \in (IF remoteAccepts(remote, c) THEN {NetworkError} ELSE {NetworkError, NotFoundError}) :
                         save' = [rejected(save, error) EXCEPT !.log = Append(@, LogEntry(c, FALSE, error, <<>>))]
                   /\ data' = storeAfterFailure(data, save)
                   /\ UNCHANGED remote
    /\ UNCHANGED <<dataId, pending, lastLoaded, nSaves, nOps, drone, lastSelected, save2>>

\* dispatch(setCurrentRoute(updatedRoute)); return updatedRoute
saveDone_r2 ==
    /\ save.pc = "dispatch"
    /\ data' = setCurrentRoute_r2(data, save.fetched[1])
    /\ lastLoaded' = save.fetched
    /\ save' = [save EXCEPT !.pc = "fulfilled"]
    /\ UNCHANGED <<dataId, remote, pending, nSaves, nOps, drone, lastSelected, save2>>

(***************************************************************************)
(* The waypoint form: its submit handlers dispatch the edit and then the   *)
(* save.  Only one save thunk is in flight at a time.                      *)
(***************************************************************************)
\* Create Waypoint: checkReqFields passes on any non-empty field, "-" included
handleFormSubmit_r2 ==
    /\ CanStart
    /\ ~SaveInFlight
    /\ Len(selectCurrentRouteWaypoints_r2(data)) < MaxWps
    /\ \E v \in FormVals :
          LET st == addWaypointToCurrentRoute_r2(data, parseWaypointForm(v))
          IN  /\ data' = st
              /\ save' = [saveStarted(st, lastLoaded) EXCEPT !.retry = isRetry(save, st)]
    /\ nOps' = nOps + 1
    /\ nSaves' = nSaves + 1
    /\ UNCHANGED <<dataId, remote, pending, lastLoaded, drone, lastSelected, save2>>

\* Finish Editing of the waypoint at editState.index: the waypoint keeps its identity
handleFinishEditing_r2_mut ==
    /\ CanStart
    /\ ~SaveInFlight
    /\ \E index \in 0..(Len(selectCurrentRouteWaypoints_r2(data)) - 1), v \in FormVals :
          LET st == editWaypointInCurrentRoute_r2(data, index, parseWaypointForm(v))
          IN  /\ data' = st
              /\ save' = [saveStarted(st, lastLoaded) EXCEPT !.retry = isRetry(save, st)]
    /\ nOps' = nOps + 1
    /\ nSaves' = nSaves + 1
    /\ UNCHANGED <<dataId, remote, pending, lastLoaded, drone, lastSelected, save2>>

handleFinishEditing_r2 ==
    /\ CanStart
    /\ ~SaveInFlight
    /\ \E index \in 0..(Len(selectCurrentRouteWaypoints_r2(data)) - 1), v \in FormVals :
          LET waypoint == [selectCurrentRouteWaypoints_r2(data)[index + 1] EXCEPT !.val = v]
              st == editWaypointInCurrentRoute_r2(data, index, waypoint)
          IN  /\ data' = st
              /\ save' = [saveStarted(st, lastLoaded) EXCEPT !.retry = isRetry(save, st)]
    /\ nOps' = nOps + 1
    /\ nSaves' = nSaves + 1
    /\ UNCHANGED <<dataId, remote, pending, lastLoaded, drone, lastSelected, save2>>

(***************************************************************************)
(* Post Route to Drone.                                                    *)
(*   posts, calls: invocations of handlePost and POST /drone/queue calls   *)
(*   so far; len, valid, sent, notices: the last invocation's queue        *)
(*   length, whether its waypoints serialized, the calls it issued and the *)
(*   notifications it raised.                                              *)
(***************************************************************************)
DroneInit == [posts |-> 0, calls |-> 0, len |-> 0, valid |-> TRUE, sent |-> 0, notices |-> 0]

\* handlePost on waypointQueue; callOk is whether the gateway call, if issued, succeeds
handlePost_mut(d, waypointQueue, callOk) ==
    [posts |-> d.posts + 1, calls |-> d.calls + 1, len |-> Len(waypointQueue), valid |-> TRUE,
     sent |-> 1, notices |-> IF callOk THEN 0 ELSE 1]

handlePost(d, waypointQueue, callOk) ==
    IF Len(waypointQueue) = 0
    THEN [posts |-> d.posts + 1, calls |-> d.calls, len |-> 0, valid |-> TRUE, sent |-> 0, notices |-> 0]
    ELSE IF \E k \in 1..Len(waypointQueue) : ~schemaAccepts(waypointQueue[k].val)
    THEN [posts |-> d.posts + 1, calls |-> d.calls, len |-> Len(waypointQueue), valid |-> FALSE,
          sent |-> 0, notices |-> 1]
    ELSE [posts |-> d.posts + 1, calls |-> d.calls + 1, len |-> Len(waypointQueue), valid |-> TRUE,
          sent |-> 1, notices |-> IF callOk THEN 0 ELSE 1]

\* the store after handlePost: it dispatches nothing to the data slice
storeAfterPost_mut(st) == updateCurrentRouteWaypoints_r2(st, <<>>)
storeAfterPost(st) == st

handlePost_r2 ==
    /\ CanStart
    /\ nOps' = nOps + 1
    /\ \E callOk \in BOOLEAN : drone' = handlePost(drone, selectCurrentRouteWaypoints_r2(data), callOk)
    /\ data' = storeAfterPost(data)
    /\ UNCHANGED <<dataId, remote, pending, save, lastLoaded, nSaves, lastSelected, save2>>

(***************************************************************************)
(* The data slice, revision {availableRoutes, currentRouteId}.             *)
(* Route identities are positive; currentRouteId 0 stands for null.        *)
(* aircraftStatus is abstracted to its heading and voltage.                *)
(***************************************************************************)
null == 0

AircraftStatus(heading, voltage) == [heading |-> heading, voltage |-> voltage]

DataInit_r3 ==
    [aircraftStatus |-> AircraftStatus("east", "nominal"), availableRoutes |-> <<>>, currentRouteId |-> null]

updateAircraftStatus_r3(st, status) == [st EXCEPT !.aircraftStatus = status]

loadAvailableRoutes_r3_mut(st, routes) ==
    [st EXCEPT !.availableRoutes = routes,
               !.currentRouteId = IF findIndex(routes, st.currentRouteId) # 0 THEN st.currentRouteId ELSE null]
loadAvailableRoutes_r3(st, routes) == [st EXCEPT !.availableRoutes = routes]

setCurrentRoute_r3_mut(st, route) ==
    [st EXCEPT !.availableRoutes = Append(st.availableRoutes, route), !.currentRouteId = route.id]
setCurrentRoute_r3(st, route) ==
    LET routeIndex == findIndex(st.availableRoutes, route.id)
    IN  [st EXCEPT !.availableRoutes =
                       IF routeIndex # 0 THEN [st.availableRoutes EXCEPT ![routeIndex] = route]
                       ELSE Append(st.availableRoutes, route),
                   !.currentRouteId = route.id]

addRoute_r3(st, route) == [st EXCEPT !.availableRoutes = Append(@, route)]

removeRoute_r3(st, id) ==
    [st EXCEPT !.availableRoutes = SelectSeq(st.availableRoutes, LAMBDA r : r.id # id),
               !.currentRouteId = IF st.currentRouteId = id THEN null ELSE st.currentRouteId]

updateRouteInList_r3(st, route) ==
    LET index == findIndex(st.availableRoutes, route.id)
    IN  IF index # 0 THEN [st EXCEPT !.availableRoutes[index] = route] ELSE st

\* the body shared by the current-route reducers: find the route of currentRouteId
currentIndex_r3_mut(st) ==
    IF st.currentRouteId # null THEN findIndex(st.availableRoutes, st.currentRouteId)
    ELSE IF Len(st.availableRoutes) > 0 THEN 1 ELSE 0
currentIndex_r3(st) ==
    IF st.currentRouteId # null THEN findIndex(st.availableRoutes, st.currentRouteId) ELSE 0

updateCurrentRouteName_r3(st, name) ==
    IF currentIndex_r3(st) # 0
    THEN [st EXCEPT !.availableRoutes[currentIndex_r3(st)].name = name] ELSE st

updateCurrentRouteWaypoints_r3_mut(st, list) ==
    IF currentIndex_r3(st) # 0
    THEN [st EXCEPT !.availableRoutes = [k \in 1..Len(@) |-> [@[k] EXCEPT !.waypoints = list]]] ELSE st
updateCurrentRouteWaypoints_r3(st, list) ==
    IF currentIndex_r3(st) # 0
    THEN [st EXCEPT !.availableRoutes[currentIndex_r3(st)].waypoints = list] ELSE st

addWaypointToCurrentRoute_r3(st, wp) ==
    IF currentIndex_r3(st) # 0
    THEN [st EXCEPT !.availableRoutes[currentIndex_r3(st)].waypoints = Append(@, wp)] ELSE st

editWaypointInCurrentRoute_r3(st, index, wp) ==
    IF currentIndex_r3(st) # 0
    THEN [st EXCEPT !.availableRoutes[currentIndex_r3(st)].waypoints = assignIndex(@, index, wp)] ELSE st

deleteWaypointFromCurrentRoute_r3(st, index) ==
    IF currentIndex_r3(st) # 0
    THEN [st EXCEPT !.availableRoutes[currentIndex_r3(st)].waypoints = splice(@, index)] ELSE st

\* <<>> stands for null
selectCurrentRoute_r3(st) ==
    LET k == findIndex(st.availableRoutes, st.currentRouteId)
    IN  IF k # 0 THEN <<st.availableRoutes[k]>> ELSE <<>>

selectCurrentRouteWaypoints_r3(st) ==
    IF selectCurrentRoute_r3(st) # <<>> THEN selectCurrentRoute_r3(st)[1].waypoints ELSE <<>>

dispatchResponse_r3_mut(st, p) ==
    CASE p.kind = "listRoutes" -> loadAvailableRoutes_r3(st, p.routes)
      [] p.kind = "getRouteById" -> setCurrentRoute_r3(st, p.routes[1])
      [] p.kind = "createRoute" -> addRoute_r3(st, p.routes[1])
      [] p.kind \in {"deleteRoute", "deleteRouteRejected"} -> removeRoute_r3(st, p.id)
dispatchResponse_r3(st, p) ==
    CASE p.kind = "listRoutes" -> loadAvailableRoutes_r3(st, p.routes)
      [] p.kind = "getRouteById" -> setCurrentRoute_r3(st, p.routes[1])
      [] p.kind = "createRoute" -> addRoute_r3(st, p.routes[1])
      [] p.kind = "deleteRoute" -> removeRoute_r3(st, p.id)
      [] p.kind = "deleteRouteRejected" -> st

thunkDone_r3 ==
    \E p \in pending :
        /\ dataId' = dispatchResponse_r3(dataId, p)
        /\ lastLoaded' = loadedAfter(p, lastLoaded)
        /\ pending' = pending \ {p}
        /\ UNCHANGED <<data, remote, save, nSaves, nOps, drone, lastSelected, save2>>

localEdit_r3 ==
    /\ CanStart
    /\ nOps' = nOps + 1
    /\ \/ \E name \in Names : dataId' = updateCurrentRouteName_r3(dataId, name)
       \/ dataId' = updateCurrentRouteWaypoints_r3(dataId, <<>>)
       \/ \E id \in {NewId, NegId}, v \in Vals :
            /\ Len(selectCurrentRouteWaypoints_r3(dataId)) < MaxWps
            /\ dataId' = addWaypointToCurrentRoute_r3(dataId, Wp(id, v, undefined, undefined))
       \/ \E index \in (-1)..(MaxWps - 1) :
            \E wp \in EditPayloads(selectCurrentRouteWaypoints_r3(dataId), index) :
                dataId' = editWaypointInCurrentRoute_r3(dataId, index, wp)
       \/ \E index \in (-1)..MaxWps : dataId' = deleteWaypointFromCurrentRoute_r3(dataId, index)
    /\ UNCHANGED <<data, remote, pending, save, lastLoaded, nSaves, drone, lastSelected, save2>>

(***************************************************************************)
(* saveCurrentRouteToBackend, single-call revision: syncRouteWaypoints     *)
(* replaces the route's waypoints by the local list and answers with the   *)
(* stored route.                                                           *)
(***************************************************************************)
unusedIds(rem) == SelectSeq(AllIds, LAMBDA id : id \in FreshIds \ rem.usedIds)

newCount(wps) == Cardinality({k \in 1..Len(wps) : isNewWaypoint(wps[k].id)})

\* the stored waypoints: position k keeps a persisted identity and takes the next unused one otherwise
syncedWaypoints(rem, route, wps) ==
    [k \in 1..Len(wps) |->
        Wp(IF isNewWaypoint(wps[k].id)
           THEN unusedIds(rem)[Cardinality({j \in 1..k : isNewWaypoint(wps[j].id)})]
           ELSE wps[k].id,
           wps[k].val, k - 1, route)]

remoteSync(rem, route, wps) ==
    [rem EXCEPT !.waypoints = {w \in @ : w.route # route}
                              \cup {syncedWaypoints(rem, route, wps)[k] : k \in 1..Len(wps)},
                !.usedIds = @ \cup Ids(syncedWaypoints(rem, route, wps))]

precheck_r3(st) ==
    IF st.currentRouteId = null THEN "No current route to save"
    ELSE IF findIndex(st.availableRoutes, st.currentRouteId) = 0
    THEN "Current route not found in available routes"
    ELSE ""

saveStart_r3 ==
    /\ save.pc \in {"idle", "fulfilled", "rejected"}
    /\ CanStart
    /\ nOps' = nOps + 1
    /\ nSaves' = nSaves + 1
    /\ LET fresh == [SaveIdle EXCEPT !.base = lastLoaded]
       IN  IF precheck_r3(dataId) # ""
           THEN /\ save' = [fresh EXCEPT !.pc = "rejected",
                                         !.error = [message |-> precheck_r3(dataId), status |-> 0]]
                /\ UNCHANGED remote
           ELSE LET currentRoute == selectCurrentRoute_r3(dataId)[1]
                    c == Call("syncRouteWaypoints", currentRoute.id, <<>>, 0, 0, "", IdSeq(currentRoute.waypoints))
                    accepted == /\ hasRoute(remote, currentRoute.id)
                                /\ newCount(currentRoute.waypoints) <= Len(unusedIds(remote))
                IN  \/ /\ accepted
                       /\ remote' = remoteSync(remote, currentRoute.id, currentRoute.waypoints)
                       /\ save' = [fresh EXCEPT !.pc = "dispatch", !.cur = currentRoute,
                                      !.fetched = <<Route(currentRoute.id,
                                                          remoteRoute(remote, currentRoute.id).name,
                                                          syncedWaypoints(remote, currentRoute.id, currentRoute.waypoints))>>,
                                      !.log = <<LogEntry(c, TRUE, NoError, <<>>)>>]
                    \/ /\ \E error \in (IF accepted THEN {NetworkError} ELSE {NetworkError, NotFoundError}) :
                            save' = [rejected(fresh, error) EXCEPT !.cur = currentRoute,
                                        !.log = <<LogEntry(c, FALSE, error, <<>>)>>]
                       /\ UNCHANGED remote
    /\ UNCHANGED <<data, dataId, pending, lastLoaded, drone, lastSelected, save2>>

\* dispatch(setCurrentRoute(updatedRoute)); dispatch(updateRouteInList(updatedRoute))
saveDone_r3 ==
    /\ save.pc = "dispatch"
    /\ dataId' = updateRouteInList_r3(setCurrentRoute_r3(dataId, save.fetched[1]), save.fetched[1])
    /\ lastLoaded' = save.fetched
    /\ save' = [save EXCEPT !.pc = "fulfilled"]
    /\ UNCHANGED <<data, remote, pending, nSaves, nOps, drone, lastSelected, save2>>

(***************************************************************************)
(* Initial state, and the specification of the currentRoute revision       *)
(***************************************************************************)
Init ==
    /\ data = DataInit_r2
    /\ dataId = DataInit_r3
    /\ remote = RemoteInit
    /\ pending = {}
    /\ save = SaveIdle
    /\ lastLoaded = <<>>
    /\ nSaves = 0
    /\ nOps = 0
    /\ drone = DroneInit
    /\ lastSelected = 0
    /\ save2 = SaveIdle

Next ==
    \/ fetchAllRoutesCall
    \/ \E id \in 1..(remote.nextRouteId - 1) : switchToRouteCall(id)
    \/ \E name \in Names : createNewRouteCall(name)
    \/ \E id \in 1..(remote.nextRouteId - 1) : deleteRouteByIdCall(id)
    \/ thunkDone_r2
    \/ localEdit_r2
    \/ saveStart_r2
    \/ saveCall_r2
    \/ saveDone_r2
    \/ handleFormSubmit_r2
    \/ handleFinishEditing_r2
    \/ handlePost_r2

Spec == Init /\ [][Next]_vars

(***************************************************************************)
(* Specification of the currentRouteId revision                            *)
(***************************************************************************)
NextId ==
    \/ fetchAllRoutesCall
    \/ \E id \in 1..(remote.nextRouteId - 1) : switchToRouteCall(id)
    \/ \E name \in Names : createNewRouteCall(name)
    \/ \E id \in 1..(remote.nextRouteId - 1) : deleteRouteByIdCall(id)
    \/ thunkDone_r3
    \/ localEdit_r3
    \/ saveStart_r3
    \/ saveDone_r3

SpecId == Init /\ [][NextId]_vars

(***************************************************************************)
(* Specification of the currentRoute revision started from the mounted     *)
(* route selector: its effect has dispatched fetchAllRoutes, whose         *)
(* response is in flight.                                                  *)
(***************************************************************************)
InitMounted ==
    /\ data = DataInit_r2
    /\ dataId = DataInit_r3
    /\ remote = RemoteInit
    /\ pending = {Response("listRoutes", remoteListRoutes(RemoteInit), 0)}
    /\ save = SaveIdle
    /\ lastLoaded = <<>>
    /\ nSaves = 0
    /\ nOps = 0
    /\ drone = DroneInit
    /\ lastSelected = 0
    /\ save2 = SaveIdle

SpecMounted == InitMounted /\ [][Next]_vars

(***************************************************************************)
(* Overlapping saves.  Nothing keeps the form from dispatching a save      *)
(* while an earlier one is in flight; the model follows two thunks.  The   *)
(* specification starts where the route list is loaded and route 1 is      *)
(* current: fetchAllRoutes and switchToRoute(1) have been started and have *)
(* completed.                                                              *)
(***************************************************************************)
Save2InFlight == save2.pc \in {"run", "dispatch"}

\* dispatch(saveCurrentRouteToBackend()) on the store st: a new thunk beside the one in flight
startSave(st) ==
    /\ ~(SaveInFlight /\ Save2InFlight)
    /\ IF ~SaveInFlight
       THEN /\ save' = [saveStarted(st, lastLoaded) EXCEPT !.retry = isRetry(save, st)]
            /\ UNCHANGED save2
       ELSE /\ save2' = saveStarted(st, lastLoaded)
            /\ UNCHANGED save
    /\ nSaves' = nSaves + 1

handleFormSubmit_o ==
    /\ CanStart
    /\ Len(selectCurrentRouteWaypoints_r2(data)) < MaxWps
    /\ \E v \in FormVals :
          LET st == addWaypointToCurrentRoute_r2(data, parseWaypointForm(v))
          IN  /\ data' = st
              /\ startSave(st)
    /\ nOps' = nOps + 1
    /\ UNCHANGED <<dataId, remote, pending, lastLoaded, drone, lastSelected>>

handleFinishEditing_o ==
    /\ CanStart
    /\ \E index \in 0..(Len(selectCurrentRouteWaypoints_r2(data)) - 1), v \in FormVals :
          LET waypoint == [selectCurrentRouteWaypoints_r2(data)[index + 1] EXCEPT !.val = v]
              st == editWaypointInCurrentRoute_r2(data, index, waypoint)
          IN  /\ data' = st
              /\ startSave(st)
    /\ nOps' = nOps + 1
    /\ UNCHANGED <<dataId, remote, pending, lastLoaded, drone, lastSelected>>

\* the steps of the second thunk are those of the first
saveCall2_r2 ==
    /\ save2.pc = "run"
    /\ LET c == nextCall(save2)
       IN  IF c.op \in {"addWaypointToRoute", "updateWaypoint"} /\ ~schemaAccepts(c.val)
           THEN \* serializePartialWaypoint.parse throws before the request is sent
                /\ save2' = rejected(save2, ZodError)
                /\ data' = storeAfterFailure(data, save2)
                /\ UNCHANGED remote
           ELSE \/ /\ remoteAccepts(remote, c)
                   /\ \E fresh \in (IF c.op = "addWaypointToRoute" THEN FreshIds \ remote.usedIds ELSE {NewId}) :
                         /\ remote' = remoteApply(remote, c, fresh)
                         /\ UNCHANGED data
                         /\ save2' = [afterCall(save2, c, remoteSaved(c, fresh),
                                               IF c.op = "getRouteById" THEN remoteRoute(remote, c.route) ELSE NoRoute)
                                       EXCEPT !.log = Append(@, LogEntry(c, TRUE, NoError,
                                                        IF c.op = "addWaypointToRoute" THEN fresh ELSE c.id))]
                \/ /\ \E error \in (IF remoteAccepts(remote, c) THEN {NetworkError} ELSE {NetworkError, NotFoundError}) :
                         save2' = [rejected(save2, error) EXCEPT !.log = Append(@, LogEntry(c, FALSE, error, <<>>))]
                   /\ data' = storeAfterFailure(data, save2)
                   /\ UNCHANGED remote
    /\ UNCHANGED <<dataId, pending, lastLoaded, nSaves, nOps, drone, lastSelected, save>>

saveDone2_r2 ==
    /\ save2.pc = "dispatch"
    /\ data' = setCurrentRoute_r2(data, save2.fetched[1])
    /\ lastLoaded' = save2.fetched
    /\ save2' = [save2 EXCEPT !.pc = "fulfilled"]
    /\ UNCHANGED <<dataId, remote, pending, nSaves, nOps, drone, lastSelected, save>>

InitOverlap ==
    /\ data = setCurrentRoute_r2(loadAvailableRoutes_r2(DataInit_r2, remoteListRoutes(RemoteInit)),
                                 remoteRoute(RemoteInit, 1))
    /\ dataId = DataInit_r3
    /\ remote = RemoteInit
    /\ pending = {}
    /\ save = SaveIdle
    /\ lastLoaded = <<remoteRoute(RemoteInit, 1)>>
    /\ nSaves = 0
    /\ nOps = 2
    /\ drone = DroneInit
    /\ lastSelected = 1
    /\ save2 = SaveIdle

NextOverlap ==
    \/ handleFormSubmit_o
    \/ handleFinishEditing_o
    \/ saveCall_r2
    \/ saveDone_r2
    \/ saveCall2_r2
    \/ saveDone2_r2

SpecOverlap == InitOverlap /\ [][NextOverlap]_vars

(***************************************************************************)
(* Properties of the working set (specification SpecId)                    *)
(***************************************************************************)
\* C1: in every reachable state, a non-null currentRouteId is the id of some entry of
\* availableRoutes.
C1_CurrentRouteIsAvailable ==
    dataId.currentRouteId # null =>
        \E k \in 1..Len(dataId.availableRoutes) : dataId.availableRoutes[k].id = dataId.currentRouteId

(***************************************************************************)
(* Properties of the call-by-call save (specification Spec)                *)
(***************************************************************************)
SaveSucceeded == save.pc \in {"dispatch", "fulfilled"}

CallsOf(ops) == SelectSeq(save.log, LAMBDA e : e.op \in ops)

SyncCalls == CallsOf({"addWaypointToRoute", "updateWaypoint"})

\* the identities that mark a waypoint as not yet persisted: "-1" or a negative number
IsUnpersisted(id) == id \in {NewId, NegId}

\* C2: a successful save issues a delete-waypoint call for identity x if and only if x was a
\* waypoint of the route as last loaded from remote storage and x is no longer in the local list.
C2_DeleteBySetDifference ==
    (SaveSucceeded /\ save.base # <<>>) =>
        {save.log[k].id : k \in {j \in 1..Len(save.log) : save.log[j].op = "deleteWaypoint"}}
        = {x \in Ids(save.base[1].waypoints) : x \notin Ids(save.cur.waypoints)}

\* C3: the local waypoints are processed in ascending index order; the waypoint at index i
\* causes exactly one remote call, a create under the route with order i when its identity is
\* the unpersisted sentinel, otherwise an update of its identity with its values and order i.
C3_OneCallPerWaypoint ==
    save.pc \in {"run", "dispatch", "fulfilled", "rejected"} =>
        /\ Len(SyncCalls) <= Len(save.cur.waypoints)
        /\ \A k \in 1..Len(SyncCalls) :
              LET w == save.cur.waypoints[k]
                  e == SyncCalls[k]
              IN  /\ e.order = k - 1
                  /\ e.val = w.val
                  /\ e.route = save.cur.id
                  /\ IF IsUnpersisted(w.id) THEN e.op = "addWaypointToRoute"
                     ELSE e.op = "updateWaypoint" /\ e.id = w.id
        /\ SaveSucceeded => Len(SyncCalls) = Len(save.cur.waypoints)

C3_Witness ==
    /\ save.pc = "fulfilled"
    /\ \E k \in 1..Len(save.cur.waypoints) : save.cur.waypoints[k].id = NegId
    /\ \E k \in 1..Len(save.cur.waypoints) : ~IsUnpersisted(save.cur.waypoints[k].id)

\* C4: a successful save issues exactly one reorder call; it follows every create, update and
\* delete call, only the re-fetch follows it, and it lists the persisted identities (those the
\* remote assigned to new waypoints) in local order.
C4_ReorderLast ==
    /\ \A k \in 1..Len(save.log) :
          save.log[k].op = "reorderWaypoints" =>
              /\ \A j \in 1..Len(save.log) : j > k => save.log[j].op = "getRouteById"
              /\ \A j \in 1..Len(save.log) : j < k => save.log[j].op # "reorderWaypoints"
    /\ SaveSucceeded =>
          /\ Len(CallsOf({"reorderWaypoints"})) = 1
          /\ save.log[Len(save.log)].op = "getRouteById"
          /\ save.log[Len(save.log) - 1].op = "reorderWaypoints"
          /\ CallsOf({"reorderWaypoints"})[1].ids =
                [k \in 1..Len(save.cur.waypoints) |->
                    IF IsUnpersisted(save.cur.waypoints[k].id) THEN SyncCalls[k].res
                    ELSE save.cur.waypoints[k].id]

C4_Witness ==
    /\ save.pc = "fulfilled"
    /\ Len(CallsOf({"deleteWaypoint"})) > 0
    /\ Len(CallsOf({"addWaypointToRoute"})) > 0

\* C5: when the local name differs from the name last loaded from remote storage, the save's
\* first call is an update-route-name call with the new name; when it does not differ, no
\* update-route-name call is issued.
C5_RenameFirst ==
    (SaveSucceeded /\ save.base # <<>>) =>
        IF save.cur.name # save.base[1].name
        THEN save.log[1].op = "updateRouteName" /\ save.log[1].name = save.cur.name
        ELSE Len(CallsOf({"updateRouteName"})) = 0

\* C6: once a remote call of a save has failed the save issues no further call (the failed call
\* stays the last one; nothing is retried or undone) and it is rejected with that call's error.
C6_FirstFailureHalts ==
    \A k \in 1..Len(save.log) :
        ~save.log[k].ok =>
            /\ k = Len(save.log)
            /\ save.pc = "rejected"
            /\ save.error.message =
                 (IF save.log[k].err.detail # "" THEN save.log[k].err.detail ELSE save.log[k].err.message)
            /\ save.error.status = save.log[k].err.status

C6_Witness ==
    /\ save.pc = "rejected"
    /\ Len(save.log) >= 3
    /\ save.log[1].ok
    /\ save.log[Len(save.log)].err = NotFoundError

\* C7: the step in which a save is rejected leaves availableRoutes, the current route, its
\* waypoints and its name as they were (as the save read them, when the step also starts it).
C7_FailedSaveKeepsWorkingSet ==
    [][(save' # save /\ save'.pc = "rejected") =>
          data' = (IF nSaves' = nSaves + 1 THEN save'.before ELSE data)]_vars

C7_Witness ==
    /\ save.pc = "rejected"
    /\ Len(save.log) >= 2
    /\ save.log[1].ok
    /\ data.currentRoute # <<>>
    /\ \E k \in 1..Len(data.currentRoute[1].waypoints) : IsUnpersisted(data.currentRoute[1].waypoints[k].id)

\* C8: a save started with no current route is rejected with the no-current-route error, one
\* started with a current route that has no entry in availableRoutes with the route-not-found
\* error; neither issues a remote call nor changes the working set or remote storage.
C8_Step ==
    (nSaves' = nSaves + 1) =>
        LET st == save'.before
        IN  /\ st.currentRoute = <<>> =>
                  /\ save'.pc = "rejected"
                  /\ save'.error.message = "No current route to save"
                  /\ save'.log = <<>>
                  /\ data' = st /\ remote' = remote
            /\ (st.currentRoute # <<>>
                  /\ \A k \in 1..Len(st.availableRoutes) : st.availableRoutes[k].id # st.currentRoute[1].id) =>
                  /\ save'.pc = "rejected"
                  /\ save'.error.message = "Current route not found in available routes"
                  /\ save'.log = <<>>
                  /\ data' = st /\ remote' = remote

C8_Preconditions ==
    /\ [](save.pc = "rejected" /\ save.error.message \in {"No current route to save", "Current route not found in available routes"}
            => save.log = <<>>)
    /\ [][C8_Step]_vars

C8_Witness ==
    /\ save.pc = "rejected"
    /\ save.error.message = "Current route not found in available routes"
    /\ save.before.currentRoute # <<>>

\* C9: the step that completes a successful save makes the re-fetched route the current route
\* and the availableRoutes entry of its id.
C9_RefetchedRouteSelected ==
    [][(save.pc = "dispatch" /\ save'.pc = "fulfilled") =>
          /\ data'.currentRoute = save.fetched
          /\ \E k \in 1..Len(data'.availableRoutes) : data'.availableRoutes[k].id = save.fetched[1].id
          /\ \A k \in 1..Len(data'.availableRoutes) :
                data'.availableRoutes[k].id = save.fetched[1].id => data'.availableRoutes[k] = save.fetched[1]]_vars

\* C10: after a successful save of N local waypoints the remote route holds exactly N
\* waypoints, their order values are 0..N-1, and in that order they carry the local values
\* (and the local identities where those were persisted).
C10_RoundTrip ==
    save.pc = "dispatch" =>
        LET got == save.fetched[1].waypoints
            want == save.cur.waypoints
        IN  /\ Len(got) = Len(want)
            /\ \A k \in 1..Len(got) :
                  /\ got[k].order = k - 1
                  /\ k <= Len(want) =>
                        /\ got[k].val = want[k].val
                        /\ ~IsUnpersisted(want[k].id) => got[k].id = want[k].id

(***************************************************************************)
(* Repeated save (specification SpecMounted)                               *)
(***************************************************************************)
\* a save is started in the store state its successful predecessor left
C11_Resave ==
    /\ save.pc = "fulfilled"
    /\ nSaves' = nSaves + 1
    /\ data.currentRoute = save.fetched
    /\ data.availableRoutes = save.before.availableRoutes

\* C11: a save that follows a successful save with no local edit in between plans no
\* create-waypoint call (no local waypoint is new) and no delete-waypoint call.
C11_SaveIdempotent ==
    [][C11_Resave =>
          /\ save'.pc = "run"
          /\ save'.deleted = <<>>
          /\ \A k \in 1..Len(save'.cur.waypoints) : ~isNewWaypoint(save'.cur.waypoints[k].id)]_vars

(***************************************************************************)
(* Reducers of the currentRouteId revision, applied in every reachable     *)
(* state of SpecId to the payloads below; indexes range over -1..length.   *)
(***************************************************************************)
TestWaypoints ==
    {<<>>, <<Wp(Id8, 1, 0, 1)>>, <<Wp(IdA1, 2, 0, 1), Wp(Id7, 1, 1, 1)>>}

TestRoutes == {Route(id, name, wps) : id \in 1..3, name \in Names, wps \in TestWaypoints}

HasEntry(st, id) == \E k \in 1..Len(st.availableRoutes) : st.availableRoutes[k].id = id

\* C12: after setCurrentRoute(r) the list contains r, inserted at the end when its id was
\* unseen and replacing the entry of that id otherwise, selectCurrentRoute is r and
\* selectCurrentRouteWaypoints is r's waypoint list.
C12_SetCurrentRouteSelects ==
    \A r \in TestRoutes :
        LET st == setCurrentRoute_r3(dataId, r)
            k == findIndex(dataId.availableRoutes, r.id)
        IN  /\ \E j \in 1..Len(st.availableRoutes) : st.availableRoutes[j] = r
            /\ IF HasEntry(dataId, r.id)
               THEN st.availableRoutes = [dataId.availableRoutes EXCEPT ![k] = r]
               ELSE st.availableRoutes = Append(dataId.availableRoutes, r)
            /\ selectCurrentRoute_r3(st) = <<r>>
            /\ selectCurrentRouteWaypoints_r3(st) = r.waypoints

\* a save has ended by selecting the stored route in place of the entry it was started from
C12_Witness ==
    /\ save.pc = "fulfilled"
    /\ selectCurrentRoute_r3(dataId) = save.fetched
    /\ save.fetched[1] # save.cur
    /\ Len(save.fetched[1].waypoints) >= 2

\* C13: removeRoute(id) removes every entry of that id and nothing else; the current-route
\* reference becomes null when it equalled id and is untouched otherwise; when no entry has
\* the id the state is unchanged, and a second removeRoute(id) changes nothing.
C13_RemoveRoute ==
    \A id \in 1..3 :
        LET st == removeRoute_r3(dataId, id)
        IN  /\ st.availableRoutes = SelectSeq(dataId.availableRoutes, LAMBDA r : r.id # id)
            /\ st.currentRouteId = (IF dataId.currentRouteId = id THEN null ELSE dataId.currentRouteId)
            /\ ~HasEntry(dataId, id) => st = dataId
            /\ removeRoute_r3(st, id) = st

\* C14: with a current route whose list has n waypoints, editWaypointInCurrentRoute and
\* deleteWaypointFromCurrentRoute at an index outside 0..n-1 leave the list as it was.
C14_OutOfRangeIndexIgnored ==
    selectCurrentRoute_r3(dataId) # <<>> =>
        LET list == selectCurrentRouteWaypoints_r3(dataId)
        IN  \A index \in {-1, Len(list)} :
                    /\ \A v \in Vals :
                          selectCurrentRouteWaypoints_r3(
                              editWaypointInCurrentRoute_r3(dataId, index, parseWaypointForm(v))) = list
                    /\ selectCurrentRouteWaypoints_r3(deleteWaypointFromCurrentRoute_r3(dataId, index)) = list

\* C15: on the current route's list an add makes the list one longer, a delete of an
\* element one shorter, and an edit (at any index) keeps the length, so that the length
\* after a sequence of operations is the initial length plus the adds minus the deletes.
C15_LengthAccounting ==
    selectCurrentRoute_r3(dataId) # <<>> =>
        LET list == selectCurrentRouteWaypoints_r3(dataId)
            len(st) == Len(selectCurrentRouteWaypoints_r3(st))
        IN  /\ \A v \in Vals : len(addWaypointToCurrentRoute_r3(dataId, parseWaypointForm(v))) = Len(list) + 1
            /\ \A index \in 0..(Len(list) - 1) :
                  len(deleteWaypointFromCurrentRoute_r3(dataId, index)) = Len(list) - 1
            /\ \A index \in (-1)..Len(list), v \in Vals :
                  len(editWaypointInCurrentRoute_r3(dataId, index, parseWaypointForm(v))) = Len(list)

\* C21: with currentRouteId null the five current-route reducers leave the whole state
\* unchanged, and selectCurrentRouteWaypoints is the empty sequence.
C21_NoCurrentRouteNoOp ==
    dataId.currentRouteId = null =>
        /\ \A name \in Names : updateCurrentRouteName_r3(dataId, name) = dataId
        /\ \A list \in TestWaypoints : updateCurrentRouteWaypoints_r3(dataId, list) = dataId
        /\ \A v \in Vals : addWaypointToCurrentRoute_r3(dataId, parseWaypointForm(v)) = dataId
        /\ \A index \in (-1)..MaxWps, v \in Vals :
              editWaypointInCurrentRoute_r3(dataId, index, parseWaypointForm(v)) = dataId
        /\ \A index \in (-1)..MaxWps : deleteWaypointFromCurrentRoute_r3(dataId, index) = dataId
        /\ selectCurrentRouteWaypoints_r3(dataId) = <<>>

\* no route is current although routes with waypoints are loaded
C21_Witness ==
    /\ dataId.currentRouteId = null
    /\ \E k \in 1..Len(dataId.availableRoutes) : Len(dataId.availableRoutes[k].waypoints) >= 2

TestRouteLists ==
    {<<>>} \cup {<<Route(id, "b", <<>>)>> : id \in 1..3}
           \cup {<<Route(1, "a", <<>>), Route(id, "b", wps)>> : id \in 2..3, wps \in TestWaypoints}

\* C22: loadAvailableRoutes(routes) makes availableRoutes equal to routes, addRoute(route)
\* appends route as the last entry, and both leave currentRouteId as it was.
C22_LoadAndAddKeepCurrent ==
    /\ \A routes \in TestRouteLists :
          LET st == loadAvailableRoutes_r3(dataId, routes)
          IN  st.availableRoutes = routes /\ st.currentRouteId = dataId.currentRouteId
    /\ \A r \in TestRoutes :
          LET st == addRoute_r3(dataId, r)
          IN  /\ st.availableRoutes = Append(dataId.availableRoutes, r)
              /\ st.currentRouteId = dataId.currentRouteId

\* a route is current, and a list without it has been loaded
C22_Witness ==
    /\ dataId.currentRouteId # null
    /\ ~HasEntry(dataId, dataId.currentRouteId)
    /\ Len(dataId.availableRoutes) >= 1

\* a status other than the initial one
TestStatus == AircraftStatus("north", "low")

\* the entries of other routes, the order of the route ids, the reference and the status
OtherRoutesKept(st0, st) ==
    /\ Len(st.availableRoutes) = Len(st0.availableRoutes)
    /\ \A k \in 1..Len(st0.availableRoutes) :
          /\ st.availableRoutes[k].id = st0.availableRoutes[k].id
          /\ st0.availableRoutes[k].id # st0.currentRouteId => st.availableRoutes[k] = st0.availableRoutes[k]
    /\ st.currentRouteId = st0.currentRouteId
    /\ st.aircraftStatus = st0.aircraftStatus

\* C30: the five current-route reducers leave every availableRoutes entry whose id differs
\* from currentRouteId, the order of availableRoutes, currentRouteId and aircraftStatus
\* unchanged.
C30_EditsTouchOnlyCurrent ==
    LET st0 == updateAircraftStatus_r3(dataId, TestStatus)
        list == selectCurrentRouteWaypoints_r3(st0)
    IN  /\ \A name \in Names : OtherRoutesKept(st0, updateCurrentRouteName_r3(st0, name))
        /\ \A wps \in TestWaypoints : OtherRoutesKept(st0, updateCurrentRouteWaypoints_r3(st0, wps))
        /\ OtherRoutesKept(st0, addWaypointToCurrentRoute_r3(st0, parseWaypointForm(1)))
        /\ \A index \in (-1)..Len(list) :
              /\ OtherRoutesKept(st0, editWaypointInCurrentRoute_r3(st0, index, parseWaypointForm(2)))
              /\ OtherRoutesKept(st0, deleteWaypointFromCurrentRoute_r3(st0, index))

\* a route with waypoints is current and another route with waypoints is in the list
C30_Witness ==
    /\ selectCurrentRoute_r3(dataId) # <<>>
    /\ Len(selectCurrentRouteWaypoints_r3(dataId)) >= 1
    /\ \E k \in 1..Len(dataId.availableRoutes) :
          /\ dataId.availableRoutes[k].id # dataId.currentRouteId
          /\ Len(dataId.availableRoutes[k].waypoints) >= 1

(***************************************************************************)
(* Route thunks (specification SpecId)                                     *)
(***************************************************************************)
\* C18: the dispatch that completes createNewRoute leaves the created route in
\* availableRoutes and current.
C18_CreatedRouteIsCurrent ==
    [][\A p \in pending :
          (pending' = pending \ {p} /\ p.kind = "createRoute") =>
              /\ HasEntry(dataId', p.id)
              /\ dataId'.currentRouteId = p.id]_vars

C20_Step ==
    /\ \A id \in 1..3 : (hasRoute(remote, id) /\ ~hasRoute(remote', id)) => dataId' = dataId
    /\ \A p \in pending :
          pending' = pending \ {p} =>
              /\ p.kind = "deleteRoute" =>
                    /\ ~hasRoute(remote, p.id)
                    /\ ~HasEntry(dataId', p.id)
                    /\ dataId'.currentRouteId =
                          (IF dataId.currentRouteId = p.id THEN null ELSE dataId.currentRouteId)
              /\ p.kind = "deleteRouteRejected" => dataId' = dataId

\* C20: the remote delete leaves the working set alone; the local removal (with the clearing
\* of the current reference when it named the route) comes with the response of a remote
\* delete that succeeded; a delete that failed is rejected and changes nothing locally.
C20_DeleteRemoteThenLocal == [][C20_Step]_vars

\* a delete of the current route has failed remotely
C20_Witness ==
    \E p \in pending :
        /\ p.kind = "deleteRouteRejected"
        /\ dataId.currentRouteId = p.id
        /\ HasEntry(dataId, p.id)

\* a delete of the current route has succeeded remotely and its response is still in flight
C20_WitnessRemoved ==
    \E p \in pending :
        /\ p.kind = "deleteRoute"
        /\ dataId.currentRouteId = p.id
        /\ HasEntry(dataId, p.id)

C17_Step ==
    /\ drone' # drone =>
          /\ drone'.posts = drone.posts + 1
          /\ data' = data
          /\ remote' = remote
          /\ save' = save
          /\ pending' = pending
          /\ nSaves' = nSaves
    /\ (data' # data \/ remote' # remote \/ save' # save \/ pending' # pending \/ nSaves' # nSaves) =>
          drone'.calls = drone.calls

\* C17: a step that posts to the drone changes neither the working set nor remote storage
\* and starts or advances no route thunk or save; a step of a save, a route thunk or a
\* local edit issues no gateway call; gateway calls are issued by post steps only.
C17_DroneAndStorageDecoupled == [][C17_Step]_vars

\* the gateway has been called and a save of the current route has completed
C17_Witness ==
    /\ drone.calls > 0
    /\ save.pc = "fulfilled"
    /\ data.currentRoute # <<>>
    /\ remote # RemoteInit

\* C19: a step in which the user edits the current route changes only the working set: it
\* starts no save and issues no remote storage call.
C19_LocalEditsAreLocal ==
    [][(nOps' = nOps + 1 /\ data' # data) =>
          /\ save' = save
          /\ remote' = remote
          /\ pending' = pending]_vars

(***************************************************************************)
(* Interleavings of the route thunks (specification SpecId)                *)
(***************************************************************************)
\* C27: in every reachable state no two entries of availableRoutes have the same id.
C27_RouteIdsUnique ==
    \A j, k \in 1..Len(dataId.availableRoutes) :
        j # k => dataId.availableRoutes[j].id # dataId.availableRoutes[k].id

(***************************************************************************)
(* Interleavings of route selection and saves (specification Spec)         *)
(***************************************************************************)
CurrentId_r2(st) == IF st.currentRoute = <<>> THEN null ELSE st.currentRoute[1].id

\* C25: the step that completes a save of one route while another route, the one the user
\* selected last, is current leaves that other route current.
C25_SaveKeepsSelection ==
    [][(/\ save.pc = "dispatch" /\ save'.pc = "fulfilled"
        /\ CurrentId_r2(data) # save.cur.id
        /\ CurrentId_r2(data) = lastSelected) =>
              CurrentId_r2(data') = CurrentId_r2(data)]_vars

\* C29: when the response of the last switchToRoute in flight is dispatched, the current
\* route is the route selected last.
C29_LastSelectionWins ==
    [][\A p \in pending :
          (/\ p.kind = "getRouteById"
           /\ pending' = pending \ {p}
           /\ \A q \in pending' : q.kind # "getRouteById") =>
              CurrentId_r2(data') = lastSelected]_vars

(***************************************************************************)
(* The waypoint form and the save it starts (specification Spec)           *)
(***************************************************************************)
C28_Step ==
    LET old == selectCurrentRouteWaypoints_r2(data)
        new == selectCurrentRouteWaypoints_r2(data')
    IN  (nSaves' = nSaves + 1 /\ data' # data /\ Len(new) = Len(old)) =>
            \A k \in 1..Len(old) :
                ~IsUnpersisted(old[k].id) =>
                    /\ new[k].id = old[k].id
                    /\ new[k].order = old[k].order
                    /\ new[k].route = old[k].route
                    /\ save'.pc = "run" =>
                          /\ syncCall(save'.cur.id, save'.cur.waypoints[k], k - 1).op = "updateWaypoint"
                          /\ syncCall(save'.cur.id, save'.cur.waypoints[k], k - 1).id = old[k].id
                          /\ old[k].id \notin Ids(save'.deleted)

C26_RetryDoesNotDuplicate ==
    (save.retry /\ save.pc \in {"dispatch", "fulfilled"}) =>
        Len(save.fetched[1].waypoints) = Len(save.cur.waypoints)

(***************************************************************************)
(* Edits while a save is in flight (specification Spec)                    *)
(***************************************************************************)
ValSeq(wps) == [k \in 1..Len(wps) |-> wps[k].val]

\* C24: when a save completes on the route it was started on, and the local list was
\* edited since the save read it (its values differ from the snapshot's, which the remote
\* stored faithfully), the local list has the same values after the completion as before it.
C24_NoLostLocalEdit ==
    [][(/\ save.pc = "dispatch" /\ save'.pc = "fulfilled"
        /\ CurrentId_r2(data) = save.cur.id
        /\ ValSeq(save.fetched[1].waypoints) = ValSeq(save.cur.waypoints)
        /\ ValSeq(selectCurrentRouteWaypoints_r2(data)) # ValSeq(save.cur.waypoints)) =>
              ValSeq(selectCurrentRouteWaypoints_r2(data')) = ValSeq(selectCurrentRouteWaypoints_r2(data))]_vars

(***************************************************************************)
(* Overlapping saves (specification SpecOverlap)                           *)
(***************************************************************************)
\* the successful create calls of a save for the local waypoint at 0-based index i
CreatesAt(s, i) ==
    Cardinality({k \in 1..Len(s.log) :
                    s.log[k].op = "addWaypointToRoute" /\ s.log[k].ok /\ s.log[k].order = i})

RemoteCount(id) == Cardinality({w \in remote.waypoints : w.route = id})

\* C23: when two saves of the same route that were in flight together have both succeeded,
\* the local waypoint at each index was created remotely at most once, and the remote
\* route has no more waypoints than the longer of the two lists the saves read.
C23_OverlappingSavesNoDuplicate ==
    (save.pc = "fulfilled" /\ save2.pc = "fulfilled" /\ save.cur.id = save2.cur.id) =>
        /\ \A i \in 0..MaxWps : CreatesAt(save, i) + CreatesAt(save2, i) <= 1
        /\ RemoteCount(save.cur.id) <= (IF Len(save.cur.waypoints) > Len(save2.cur.waypoints)
                                        THEN Len(save.cur.waypoints) ELSE Len(save2.cur.waypoints))

====
